---- MODULE Spec2Model ----
(***************************************************************************)
(* The job scheduling and execution subsystem of cc_director:              *)
(*   - the Schedule Store and Run Ledger (cc_director/database.py),        *)
(*   - the scheduler daemon: run_scheduler, run_job, the worker pool and   *)
(*     the running-jobs guard (cc_director/service.py),                    *)
(*   - the process executor (cc_director/executor.py),                     *)
(*   - the two trigger operations: the CLI command (scheduler.py) and the  *)
(*     gateway route (gateway/routes/jobs.py).                             *)
(*                                                                         *)
(* Time is a discrete clock `now`; one tick stands for 30 seconds, so the  *)
(* default check_interval (60 s) is 2 ticks and the default                *)
(* shutdown_timeout (30 s) is 1 tick.                                      *)
(*                                                                         *)
(* Store operations.  Database.connect opens the sqlite3 connection        *)
(* without check_same_thread=False, and run_scheduler opens it on the main *)
(* thread (db.create_tables()).  sqlite3 then raises ProgrammingError for  *)
(* every operation issued from another thread, which is where run_job      *)
(* runs.  Besides that, any operation can raise sqlite3.Error (locked      *)
(* database, disk full).  The model gives every store operation of the     *)
(* daemon both outcomes, the operation taking effect or raising, so its    *)
(* behaviours include those of the build as it stands (a pool thread's     *)
(* operation always raises) and those of a store that serves the pool      *)
(* threads, which is the path run_job is written for.                      *)
(***************************************************************************)
EXTENDS Integers, Sequences, FiniteSets, TLC

\* ------------------------------------------------------------------ bounds
NumJobs == 2
MaxTime == 3
MaxRuns == 2
MaxQueue == 2
MaxWorkers == 2
MaxRestarts == 1
\* job.timeout_seconds of the modelled jobs, in ticks
TimeoutTicks == 3
\* the modelled jobs' cron expression fires every CronPeriod ticks
CronPeriod == 2

\* ------------------------------------------------------- program constants
CheckInterval == 2
ShutdownTimeout == 1
NULL == -1
\* A timestamp of the run ledger (started_at, ended_at).  The ledger's
\* timestamps are written and reported but never read back by the scheduler;
\* the model records that ended_at is set, not its value.
Stamp == 0

JobIds == 1..NumJobs
\* job names; a name is an index into the names the model uses
JobNames == 1..NumJobs
WorkerIds == 1..MaxWorkers

VARIABLES
    now,                 \* datetime.now()
    jobs,                \* table jobs: id -> row
    runs,                \* table runs: sequence of rows, id = index
    sched,               \* the main thread of run_scheduler
    shutdown_requested,  \* _shutdown_requested
    running_jobs,        \* _running_jobs
    queue,               \* the ThreadPoolExecutor's work queue
    workers,             \* the pool's threads, each idle or inside run_job
    cli,                 \* a `cc_scheduler trigger` process
    restarts,            \* scheduler processes started after the first
    lost_runs,           \* history: run ids whose run_job died with the process
    failed_runs,         \* history: run ids whose update_run raised
    occ_run,             \* history: per job, who has run the occurrence next_run stands for
    mgmt,                \* a management command of the CLI (add, enable) in progress
    gw,                  \* a management request of the gateway (create, update) in progress
    job_seq,             \* sqlite_sequence of table jobs: the highest id ever given
    utc_offset,          \* local time minus UTC on this machine
    cleanup,             \* the last call of cleanup_old_runs: its argument and result
    exec,                \* one call of execute_job, step by step
    events,              \* lifecycle events handed to broadcast_event, oldest first
    listing,             \* the last query of the run ledger and the rows it returned
    cron_eval            \* one call of calculate_next_run: its arguments and its outcome

vars == <<now, jobs, runs, sched, shutdown_requested, running_jobs, queue,
          workers, cli, restarts, lost_runs, failed_runs, occ_run,
          mgmt, gw, job_seq, utc_offset, cleanup, exec, events, listing, cron_eval>>

\* what the daemon's own steps and the trigger operations leave alone
admin == <<mgmt, gw, job_seq, utc_offset, cleanup, exec, events, listing, cron_eval>>

\* ------------------------------------------------------------ cron (cron.py)
\* A cron expression is modelled by its period p: it matches the instants that
\* are multiples of p ("* * * * *" with 30 s ticks is p = 2).
CronMatches(expression, t) == t % expression = 0

\* croniter(expression, from_time).get_next(): the earliest matching instant
\* strictly after from_time.
calculate_next_run(expression, from_time) ==
    CHOOSE t \in (from_time + 1)..(from_time + expression) :
        /\ CronMatches(expression, t)
        /\ \A u \in (from_time + 1)..(t - 1) : ~CronMatches(expression, u)

\* The five fields of an expression, as far as the model follows them: the
\* time-of-day fields as a step ("every `every` ticks", counted from the start
\* of the day) and the day-of-week field as a set of days, 0 for Sunday to 6
\* for Saturday.  A day has CronDayTicks ticks and instant 0 starts a Sunday.
CronDayTicks == 2

Weekday(t) == (t \div CronDayTicks) % 7

AllDays == 0..6

\* croniter(expression): the constructor takes a step of 1 up to the range of
\* the field and days of the week in range, at least one; anything else
\* raises CroniterBadCronError, a ValueError.
validate_cron(expression) ==
    /\ expression.every \in 1..CronDayTicks
    /\ expression.days # {}
    /\ expression.days \subseteq AllDays

CronFieldsMatch(expression, t) ==
    /\ CronMatches(expression.every, t % CronDayTicks)
    /\ Weekday(t) \in expression.days

\* croniter's search: from the candidate on, instant by instant
RECURSIVE FirstMatchFrom(_, _)
FirstMatchFrom(expression, t) ==
    IF CronFieldsMatch(expression, t) THEN t ELSE FirstMatchFrom(expression, t + 1)

\* A search that begins at the start time itself.  Not the library; the
\* faulty variant against which C22_NextRunIsEarliestStrictlyAfter is tried.
get_next_or_now(expression, start_time) == FirstMatchFrom(expression, start_time)

\* croniter(expression, start_time).get_next(datetime)
get_next(expression, start_time) == FirstMatchFrom(expression, start_time + 1)

\* no call of calculate_next_run
NoCronCall ==
    [pc |-> "none", expression |-> [every |-> 1, days |-> AllDays], from_time |-> 0,
     value |-> NULL]

\* ------------------------------------------------------ store (database.py)
\* Table jobs is a function from ids to rows; an id without a row (not given
\* yet, or deleted) maps to NoRow.  Of the columns, command, working_dir,
\* timeout_seconds, tags and created_at are left out: no operation of the
\* model reads a value of theirs that another operation changed.
NoRow == [name |-> 0, cron |-> 0, enabled |-> FALSE, next_run |-> NULL, updated_at |-> NULL]

Present(job) == job.name # 0

\* CURRENT_TIMESTAMP and datetime('now') of sqlite are UTC; datetime.now() of
\* Python is local time.
UtcNow == now - utc_offset

\* `SELECT * FROM jobs WHERE name = ?`: the id of the row, 0 for none
get_job(name) ==
    IF \E i \in JobIds : jobs[i].name = name
    THEN CHOOSE i \in JobIds : jobs[i].name = name
    ELSE 0

\* A due test that forgets the enabled flag: `WHERE next_run IS NOT NULL AND
\* next_run <= ?`.  Not the program; the faulty variant against which
\* C12_DueJobsExactAndOrdered is tried.
IsDueIgnoringEnabled(job, t) == job.next_run # NULL /\ job.next_run <= t

\* `WHERE enabled = 1 AND next_run IS NOT NULL AND next_run <= ?`
IsDue(job, t) == job.enabled /\ job.next_run # NULL /\ job.next_run <= t

\* The Job object a query returns; of its fields run_job reads id, name and
\* cron (and command, working_dir, timeout_seconds, which no operation of
\* the model changes).
Snapshot(id) == [id |-> id, name |-> jobs[id].name, cron |-> jobs[id].cron]

\* ORDER BY next_run: insertion of the due ids in ascending next_run order
\* (ties in id order, the table's rowid order).
RECURSIVE SortDue(_)
SortDue(ids) ==
    IF ids = {} THEN <<>>
    ELSE LET first == CHOOSE i \in ids :
                 \A k \in ids : \/ jobs[i].next_run < jobs[k].next_run
                                \/ (jobs[i].next_run = jobs[k].next_run /\ i <= k)
         IN  <<Snapshot(first)>> \o SortDue(ids \ {first})

get_due_jobs == SortDue({i \in JobIds : IsDue(jobs[i], now)})

\* An insert that overwrites the row of a name that is there: `INSERT ... ON
\* CONFLICT(name) DO UPDATE`.  Not the program; the faulty variant against
\* which C13_JobNamesUnique is tried.
add_job_upsert(row) ==
    IF get_job(row.name) # 0
    THEN [jobs EXCEPT ![get_job(row.name)] = row]
    ELSE [jobs EXCEPT ![job_seq + 1] = row]

\* `INSERT INTO jobs (name, ...)` under `name TEXT UNIQUE NOT NULL` and
\* `id INTEGER PRIMARY KEY AUTOINCREMENT`: a name that is there raises
\* sqlite3.IntegrityError and the table is as it was; otherwise the row gets
\* the id after the highest ever given.
add_job(row) ==
    IF get_job(row.name) # 0
    THEN jobs
    ELSE [jobs EXCEPT ![job_seq + 1] = row]

\* `DELETE FROM jobs WHERE name = ?`; table runs is not touched (the schema
\* declares the foreign key without ON DELETE and the connection does not
\* turn foreign keys on).
delete_job(name) ==
    [i \in JobIds |-> IF jobs[i].name = name THEN NoRow ELSE jobs[i]]

\* `UPDATE jobs SET enabled = ?, updated_at = CURRENT_TIMESTAMP WHERE name = ?`
set_job_enabled(name, enabled) ==
    [i \in JobIds |->
        IF Present(jobs[i]) /\ jobs[i].name = name
        THEN [jobs[i] EXCEPT !.enabled = enabled, !.updated_at = UtcNow]
        ELSE jobs[i]]

\* `UPDATE jobs SET cron = ?, ..., enabled = ?, ..., updated_at =
\* CURRENT_TIMESTAMP, next_run = ? WHERE id = ?`: every column but the name,
\* from the Job object in hand.
update_job(job_id, cron, enabled, next_run) ==
    IF job_id \in JobIds /\ Present(jobs[job_id])
    THEN [jobs EXCEPT ![job_id] = [name |-> jobs[job_id].name, cron |-> cron,
                                   enabled |-> enabled, next_run |-> next_run,
                                   updated_at |-> UtcNow]]
    ELSE jobs

\* An update that also stamps the row: `SET next_run = ?, updated_at =
\* CURRENT_TIMESTAMP`.  Not the program; the faulty variant against which
\* C20_UpdateNextRunFrame is tried.
update_next_run_stamping(table, job_id, next_run) ==
    IF job_id \in JobIds /\ Present(table[job_id])
    THEN [table EXCEPT ![job_id].next_run = next_run, ![job_id].updated_at = UtcNow]
    ELSE table

\* `UPDATE jobs SET next_run = ? WHERE id = ?`: no row, no change
update_next_run_in(table, job_id, next_run) ==
    IF job_id \in JobIds /\ Present(table[job_id])
    THEN [table EXCEPT ![job_id].next_run = next_run]
    ELSE table

\* the statement on the table as it stands
update_next_run(job_id, next_run) == update_next_run_in(jobs, job_id, next_run)

\* no call of cleanup_old_runs yet
NoCleanup == [days |-> 0, count |-> 0]

\* a Run row that was deleted; ids are not given again
NoRun ==
    [job_id |-> 0, job_name |-> 0, started_at |-> NULL, ended_at |-> NULL,
     exit_code |-> NULL, timed_out |-> FALSE]

\* one day and one hour in ticks of 30 seconds
DayTicks == 2880
HourTicks == 120

\* `DELETE FROM runs WHERE started_at < datetime('now', '-N days')`: the
\* rows' started_at was written by Python from datetime.now(), local time;
\* sqlite's datetime('now', ...) is UTC.
cleanup_old_runs(days) ==
    [r \in 1..Len(runs) |->
        IF runs[r] # NoRun /\ runs[r].started_at < UtcNow - days * DayTicks
        THEN NoRun
        ELSE runs[r]]

OpenRun(job) ==
    [job_id |-> job.id, job_name |-> job.name, started_at |-> Stamp,
     ended_at |-> NULL, exit_code |-> NULL, timed_out |-> FALSE]

create_run(run) == Append(runs, run)

\* An update that selects by job instead of by run id:
\* `UPDATE runs SET ... WHERE job_id = ? AND ended_at IS NULL`.  Not the
\* program; the faulty variant against which C17_RunWrittenOnceByItsCreator is
\* tried.
update_run_by_job(run_id, ended_at, exit_code, timed_out) ==
    [r \in 1..Len(runs) |->
        IF runs[r].job_id = runs[run_id].job_id /\ runs[r].ended_at = NULL
        THEN [runs[r] EXCEPT !.ended_at = ended_at, !.exit_code = exit_code,
                             !.timed_out = timed_out]
        ELSE runs[r]]

\* `UPDATE runs SET ended_at = ?, exit_code = ?, ... WHERE id = ?`: no row,
\* no change
update_run(run_id, ended_at, exit_code, timed_out) ==
    IF runs[run_id] = NoRun
    THEN runs
    ELSE [runs EXCEPT ![run_id].ended_at = ended_at,
                      ![run_id].exit_code = exit_code,
                      ![run_id].timed_out = timed_out]

\* ------------------------------------------- queries of the run ledger
\* no query made yet
NoListing ==
    [op |-> "none", job_name |-> 0, limit |-> 0, failed_only |-> FALSE,
     since |-> NULL, rows |-> <<>>]

\* The rows selected by the WHERE clause of list_runs.  `if job_name:` and
\* `if since:` leave the condition out for None (0 and NULL here):
\*   AND job_name = ?
\*   AND (exit_code != 0 OR exit_code IS NULL OR timed_out = 1)
\*   AND started_at >= ?
Selected(job_name, failed_only, since) ==
    { r \in 1..Len(runs) :
        /\ runs[r] # NoRun
        /\ job_name # 0 => runs[r].job_name = job_name
        /\ failed_only => (runs[r].exit_code # 0 \/ runs[r].timed_out)
        /\ since # NULL => runs[r].started_at >= since }

\* `ORDER BY started_at DESC`: the orders in which the rows can come; SQL
\* leaves the order of rows with equal started_at open.
OrderByStartedAtDesc(ids) ==
    { q \in [1..Cardinality(ids) -> ids] :
        /\ \A a, b \in 1..Cardinality(ids) : a # b => q[a] # q[b]
        /\ \A a, b \in 1..Cardinality(ids) :
              a < b => runs[q[a]].started_at >= runs[q[b]].started_at }

\* `LIMIT ?`: sqlite takes a negative limit as no limit
Limit(q, limit) ==
    IF limit < 0 \/ limit >= Len(q) THEN q ELSE SubSeq(q, 1, limit)

\* list_runs(job_name, limit, failed_only, since): the lists of run ids it
\* can return
list_runs(job_name, limit, failed_only, since) ==
    { Limit(q, limit) : q \in OrderByStartedAtDesc(Selected(job_name, failed_only, since)) }

\* get_last_run(job_name): `runs = self.list_runs(job_name=job_name, limit=1)`,
\* `runs[0] if runs else None`
get_last_run(job_name) == list_runs(job_name, 1, FALSE, NULL)

\* ----------------------------------------------------------------- records
NoJob == [id |-> 0, name |-> 0, cron |-> 0]

IdleWorker == [pc |-> "idle", job |-> NoJob, run_id |-> 0, started_at |-> NULL]

IdleCli == [pc |-> "idle", job |-> NoJob, started_at |-> NULL]

\* The main thread at the top of run_scheduler.  sleep_start is the local of
\* the sleep loop; wait_start is the instant the finally block was entered,
\* where the wait for the pool begins; exc tells whether an exception is
\* propagating.
StartingScheduler ==
    [pc |-> "startup", due |-> <<>>, sleep_start |-> 0, wait_start |-> NULL,
     exc |-> FALSE]

ProcessUp == sched.pc \notin {"down", "stopped"}

\* execute_job not called: no child, no signal sent, no result
IdleExec ==
    [pc |-> "idle", timeout_seconds |-> 0, started_at |-> NULL, wait_start |-> NULL,
     proc |-> "none", returncode |-> NULL, term_sent |-> FALSE, kill_sent |-> FALSE,
     timed_out |-> FALSE, exit_code |-> NULL, duration_seconds |-> NULL]

\* ---------------------------------------------------------------- initial
\* Rows as the commands leave them: added enabled (`add` computes next_run;
\* here the occurrence is already due), enabled without a next_run (added
\* disabled and enabled through the gateway, which sets only the flag), or
\* disabled after having been scheduled (`disable` keeps next_run).
InitJobRows ==
    { [enabled |-> TRUE, next_run |-> 0, cron |-> CronPeriod],
      [enabled |-> TRUE, next_run |-> NULL, cron |-> CronPeriod],
      [enabled |-> FALSE, next_run |-> 0, cron |-> CronPeriod] }

\* The row of table jobs with the given name and the columns of r, last
\* written at the start.
JobRow(name, r) ==
    [name |-> name, cron |-> r.cron, enabled |-> r.enabled, next_run |-> r.next_run,
     updated_at |-> 0]

\* The job table at the start: the first job is scheduled, the others are
\* disabled.  Job j has name j.
InitJobTables ==
    { [j \in JobIds |-> JobRow(j, t[j])] :
        t \in { u \in [JobIds -> InitJobRows] :
                   u[1].enabled /\ \A j \in JobIds : j > 1 => ~u[j].enabled } }

\* No management command or request in progress.  A command in progress
\* holds the name it was given, the Job object it read and the enabled flag
\* and next_run it is going to write.
IdleAdmin ==
    [pc |-> "idle", name |-> 0, job |-> NoJob, enabled |-> FALSE, next_run |-> NULL,
     with_cron |-> FALSE, with_enabled |-> FALSE]

Init ==
    /\ now = 0
    /\ jobs \in InitJobTables
    /\ runs = <<>>
    /\ sched = StartingScheduler
    /\ shutdown_requested = FALSE
    /\ running_jobs = {}
    /\ queue = <<>>
    /\ workers = [w \in WorkerIds |-> IdleWorker]
    /\ cli = IdleCli
    /\ restarts = 0
    /\ lost_runs = {}
    /\ failed_runs = {}
    /\ occ_run = [j \in JobIds |-> "nobody"]
    /\ mgmt = IdleAdmin
    /\ gw = IdleAdmin
    /\ job_seq = NumJobs
    /\ utc_offset = 0
    /\ cleanup = NoCleanup
    /\ exec = IdleExec
    /\ events = <<>>
    /\ listing = NoListing
    /\ cron_eval = NoCronCall

hist == <<lost_runs, failed_runs, occ_run>>

\* --------------------------------------------- run_scheduler (service.py)
\* A start-up that reschedules every enabled job, whether it has a next_run or
\* not.  Not the program; the faulty variant against which
\* C18_StartupInitialisesNullNextRun is tried.
initialize_all_schedules ==
    [i \in JobIds |->
        IF jobs[i].enabled
        THEN [jobs[i] EXCEPT !.next_run = calculate_next_run(jobs[i].cron, now)]
        ELSE jobs[i]]

\* initialize_job_schedules: every enabled job without a next_run gets one.
initialize_job_schedules ==
    [i \in JobIds |->
        IF jobs[i].enabled /\ jobs[i].next_run = NULL
        THEN [jobs[i] EXCEPT !.next_run = calculate_next_run(jobs[i].cron, now)]
        ELSE jobs[i]]

Startup ==
    /\ sched.pc = "startup"
    /\ jobs' = initialize_job_schedules
    /\ sched' = [sched EXCEPT !.pc = "loop"]
    /\ occ_run' = [j \in JobIds |->
                      IF jobs'[j].next_run = jobs[j].next_run THEN occ_run[j] ELSE "nobody"]
    /\ UNCHANGED <<admin, now, runs, shutdown_requested, running_jobs, queue, workers,
                   cli, restarts, lost_runs, failed_runs>>

\* A loop that does not look at the flag: `while True:`.  Not the program; the
\* faulty variant against which C9_NoPollCycleAfterShutdown is tried.
LoopTestIgnoresFlag ==
    /\ sched.pc = "loop"
    /\ sched' = [sched EXCEPT !.pc = "poll"]
    /\ UNCHANGED <<admin, now, jobs, runs, shutdown_requested, running_jobs, queue,
                   workers, cli, restarts, hist>>

\* `while not _shutdown_requested:` - the test alone; the signal handler can
\* run between the test and the call of get_due_jobs.
LoopTest ==
    /\ sched.pc = "loop"
    /\ sched' = IF shutdown_requested
                THEN [sched EXCEPT !.pc = "finally", !.wait_start = now]
                ELSE [sched EXCEPT !.pc = "poll"]
    /\ UNCHANGED <<admin, now, jobs, runs, shutdown_requested, running_jobs, queue,
                   workers, cli, restarts, hist>>

\* `due_jobs = db.get_due_jobs()`
Poll ==
    /\ sched.pc = "poll"
    /\ sched' = [sched EXCEPT !.pc = "dispatch", !.due = get_due_jobs]
    /\ UNCHANGED <<admin, now, jobs, runs, shutdown_requested, running_jobs, queue,
                   workers, cli, restarts, hist>>

\* get_due_jobs raises: nothing in the loop catches it (the only handler is
\* `except KeyboardInterrupt`), so control leaves the loop for the finally block.
PollRaises ==
    /\ sched.pc = "poll"
    /\ sched' = [sched EXCEPT !.pc = "finally", !.wait_start = now, !.exc = TRUE]
    /\ UNCHANGED <<admin, now, jobs, runs, shutdown_requested, running_jobs, queue,
                   workers, cli, restarts, hist>>

\* `for job in due_jobs: if _shutdown_requested: break`.  When the list is
\* exhausted or the flag is set the thread goes on to the sleep loop
\* (`sleep_start = time.time()`).  The signal handler runs on this thread
\* between two bytecodes, so the test and the submit are separate steps.
Dispatch ==
    /\ sched.pc = "dispatch"
    /\ sched' = IF sched.due = <<>> \/ shutdown_requested
                THEN [sched EXCEPT !.pc = "sleep", !.due = <<>>, !.sleep_start = now]
                ELSE [sched EXCEPT !.pc = "submit"]
    /\ UNCHANGED <<admin, now, jobs, runs, shutdown_requested, running_jobs, queue,
                   workers, cli, restarts, hist>>

\* `executor.submit(run_job, db, job, logger)`
Submit ==
    /\ sched.pc = "submit"
    /\ Len(queue) < MaxQueue
    /\ queue' = Append(queue, Head(sched.due))
    /\ sched' = [sched EXCEPT !.pc = "dispatch", !.due = Tail(sched.due)]
    /\ UNCHANGED <<admin, now, jobs, runs, shutdown_requested, running_jobs, workers,
                   cli, restarts, hist>>

\* `while not _shutdown_requested and (time.time() - sleep_start) < sleep_time`
Sleep ==
    /\ sched.pc = "sleep"
    /\ shutdown_requested \/ now - sched.sleep_start >= CheckInterval
    /\ sched' = [sched EXCEPT !.pc = "loop"]
    /\ UNCHANGED <<admin, now, jobs, runs, shutdown_requested, running_jobs, queue,
                   workers, cli, restarts, hist>>

\* executor.shutdown(wait=True, cancel_futures=False) returns once the queue is
\* drained and every worker is idle; then db.close() and run_scheduler returns
\* (or the pending exception propagates).
PoolDrained == queue = <<>> /\ \A w \in WorkerIds : workers[w].pc = "idle"

Finally ==
    /\ sched.pc = "finally"
    /\ PoolDrained
    /\ sched' = [sched EXCEPT !.pc = "stopped"]
    /\ UNCHANGED <<admin, now, jobs, runs, shutdown_requested, running_jobs, queue,
                   workers, cli, restarts, hist>>

\* signal_handler (SIGINT, SIGTERM)
Signal ==
    /\ ProcessUp
    /\ ~shutdown_requested
    /\ shutdown_requested' = TRUE
    /\ UNCHANGED <<admin, now, jobs, runs, sched, running_jobs, queue, workers, cli,
                   restarts, lost_runs, failed_runs, occ_run>>

\* ------------------------------------------------- run_job (service.py)
\* A guard that admits everything.  Not the program; the faulty variant
\* against which C1_NoTwoExecutionsInFlight is tried.
TryAdmitUnguarded(running, job_id) == TRUE

\* `with _running_jobs_lock: if job.id in _running_jobs: return` - the test
\* and the insertion happen under one lock, so they are one step.
TryAdmit(running, job_id) == job_id \notin running

\* A pool thread takes the oldest submission and enters run_job.  The pool's
\* threads are interchangeable: the idle thread of lowest index takes it.
StartRunJob(w) ==
    /\ ProcessUp
    /\ workers[w].pc = "idle"
    /\ \A v \in WorkerIds : v < w => workers[v].pc # "idle"
    /\ queue # <<>>
    /\ queue' = Tail(queue)
    /\ LET job == Head(queue) IN
       IF TryAdmit(running_jobs, job.id)
       THEN /\ running_jobs' = running_jobs \cup {job.id}
            /\ workers' = [workers EXCEPT ![w] =
                              [IdleWorker EXCEPT !.pc = "create_run", !.job = job]]
       ELSE /\ workers' = [workers EXCEPT ![w] =
                              [IdleWorker EXCEPT !.pc = "skipped", !.job = job]]
            /\ UNCHANGED running_jobs
    /\ UNCHANGED <<admin, now, jobs, runs, sched, shutdown_requested, cli, restarts, hist>>

\* A rejected run_job that passes through the finally clause and discards the
\* id it never added.  Not the program; the faulty variant against which
\* C6_AdmissionIsAtomic is tried.
ReturnSkippedDiscards(w) ==
    /\ workers[w].pc = "skipped"
    /\ workers' = [workers EXCEPT ![w] = IdleWorker]
    /\ running_jobs' = running_jobs \ {workers[w].job.id}
    /\ UNCHANGED <<admin, now, jobs, runs, sched, shutdown_requested, queue, cli,
                   restarts, hist>>

\* "Job ... is already running, skipping": run_job returns.
ReturnSkipped(w) ==
    /\ workers[w].pc = "skipped"
    /\ workers' = [workers EXCEPT ![w] = IdleWorker]
    /\ UNCHANGED <<admin, now, jobs, runs, sched, shutdown_requested, running_jobs,
                   queue, cli, restarts, hist>>

\* `run_id = db.create_run(run)` with ended_at = None, exit_code = None
CreateRun(w) ==
    /\ workers[w].pc = "create_run"
    /\ Len(runs) < MaxRuns
    /\ runs' = create_run(OpenRun(workers[w].job))
    /\ workers' = [workers EXCEPT ![w].pc = "execute", ![w].run_id = Len(runs) + 1]
    /\ UNCHANGED <<admin, now, jobs, sched, shutdown_requested, running_jobs, queue,
                   cli, restarts, hist>>

\* A run_job without the finally clause: the exception leaves the function
\* and the id stays in the set.  Not the program; the faulty variant against
\* which C25_GuardReleasedOnEveryPath is tried.
StoreRaisesLeaks(w) ==
    /\ workers[w].pc \in {"create_run", "next_run"}
    /\ workers' = [workers EXCEPT ![w] = IdleWorker]
    /\ UNCHANGED <<admin, now, jobs, runs, sched, shutdown_requested, running_jobs,
                   queue, cli, restarts, hist>>

\* create_run or update_next_run raises: the exception leaves the try block,
\* the finally clause still runs, and the pool stores the exception in a
\* Future that nobody reads.
StoreRaises(w) ==
    /\ workers[w].pc \in {"create_run", "next_run"}
    /\ workers' = [workers EXCEPT ![w].pc = "release"]
    /\ UNCHANGED <<admin, now, jobs, runs, sched, shutdown_requested, running_jobs,
                   queue, cli, restarts, hist>>

\* execute_job: subprocess.Popen succeeds and the thread blocks in communicate()
Spawn(w) ==
    /\ workers[w].pc = "execute"
    /\ workers' = [workers EXCEPT ![w].pc = "wait", ![w].started_at = now]
    /\ occ_run' = [occ_run EXCEPT ![workers[w].job.id] = "this process"]
    /\ UNCHANGED <<admin, now, jobs, runs, sched, shutdown_requested, running_jobs,
                   queue, cli, restarts, lost_runs, failed_runs>>

\* exit codes of the modelled commands: success and failure
ExitCodes == {0, 1}
\* FileNotFoundError -> 127, PermissionError -> 126, any other OSError -> 1
SpawnErrors == {126, 127, 1}

\* A run_job that raises for a failed command instead of recording it.  Not
\* the program; the faulty variant against which C14_FailuresAreRecorded is
\* tried.
RecordResultRaisesOnFailure(w, exit_code, timed_out) ==
    IF exit_code = 0
    THEN /\ runs' = update_run(workers[w].run_id, Stamp, exit_code, timed_out)
         /\ workers' = [workers EXCEPT ![w].pc = "next_run"]
         /\ UNCHANGED failed_runs
    ELSE /\ workers' = [workers EXCEPT ![w].pc = "release"]
         /\ UNCHANGED <<runs, failed_runs>>

\* execute_job has returned a result: `db.update_run(run)` writes it, or raises.
RecordResult(w, exit_code, timed_out) ==
    \/ /\ runs' = update_run(workers[w].run_id, Stamp, exit_code, timed_out)
       /\ workers' = [workers EXCEPT ![w].pc = "next_run"]
       /\ UNCHANGED failed_runs
    \/ /\ workers' = [workers EXCEPT ![w].pc = "release"]
       /\ failed_runs' = failed_runs \cup {workers[w].run_id}
       /\ UNCHANGED runs

\* execute_job: Popen raises FileNotFoundError, PermissionError or another
\* OSError; the result is returned at once.
SpawnFails(w) ==
    /\ workers[w].pc = "execute"
    /\ \E code \in SpawnErrors : RecordResult(w, code, FALSE)
    /\ UNCHANGED <<admin, now, jobs, sched, shutdown_requested, running_jobs, queue,
                   cli, restarts, lost_runs, occ_run>>

\* the child exits by itself within the timeout
ProcExit(w) ==
    /\ workers[w].pc = "wait"
    /\ \E code \in ExitCodes : RecordResult(w, code, FALSE)
    /\ UNCHANGED <<admin, now, jobs, sched, shutdown_requested, running_jobs, queue,
                   cli, restarts, lost_runs, occ_run>>

\* communicate(timeout=timeout_seconds) raises TimeoutExpired: _kill_process,
\* timed_out = True, exit_code = None
ProcTimeout(w) ==
    /\ workers[w].pc = "wait"
    /\ now - workers[w].started_at >= TimeoutTicks
    /\ RecordResult(w, NULL, TRUE)
    /\ UNCHANGED <<admin, now, jobs, sched, shutdown_requested, running_jobs, queue,
                   cli, restarts, lost_runs, occ_run>>

\* The next occurrence counted from the stored next_run instead of from now.
\* Not the program; the faulty variant against which C5_NextRunComputedFromNow is
\* tried.
NextRunFromSchedule(job) == calculate_next_run(job.cron, jobs[job.id].next_run)

\* `next_run = calculate_next_run(job.cron)`: from_time defaults to now
NextRunAfterJob(job) == calculate_next_run(job.cron, now)

\* `db.update_next_run(job.id, next_run)`
UpdateNextRun(w) ==
    /\ workers[w].pc = "next_run"
    /\ jobs' = update_next_run(workers[w].job.id, NextRunAfterJob(workers[w].job))
    /\ workers' = [workers EXCEPT ![w].pc = "release"]
    /\ occ_run' = [occ_run EXCEPT ![workers[w].job.id] = "nobody"]
    /\ UNCHANGED <<admin, now, runs, sched, shutdown_requested, running_jobs, queue,
                   cli, restarts, lost_runs, failed_runs>>

\* `finally: with _running_jobs_lock: _running_jobs.discard(job.id)`
Release(w) ==
    /\ workers[w].pc = "release"
    /\ running_jobs' = running_jobs \ {workers[w].job.id}
    /\ workers' = [workers EXCEPT ![w] = IdleWorker]
    /\ UNCHANGED <<admin, now, jobs, runs, sched, shutdown_requested, queue, cli,
                   restarts, hist>>

\* ------------------------------------- `cc_scheduler trigger` (scheduler.py)
\* A process of its own, with its own connection: it reads the job, runs the
\* command itself with execute_job and writes the run row afterwards.
ClosedRun(job, exit_code, timed_out) ==
    [job_id |-> job.id, job_name |-> job.name, started_at |-> Stamp,
     ended_at |-> Stamp, exit_code |-> exit_code, timed_out |-> timed_out]

\* `job = db.get_job(name)`, then execute_job: Popen succeeds
CliTrigger(j) ==
    /\ cli.pc = "idle"
    /\ Present(jobs[j])
    /\ Len(runs) < MaxRuns
    /\ cli' = [pc |-> "wait", job |-> Snapshot(j), started_at |-> now]
    /\ UNCHANGED <<admin, now, jobs, runs, sched, shutdown_requested, running_jobs,
                   queue, workers, restarts, hist>>

\* the triggered command exits; `run_id = db.create_run(run)` records it
CliTriggerExit ==
    /\ cli.pc = "wait"
    /\ Len(runs) < MaxRuns
    /\ \E code \in ExitCodes : runs' = create_run(ClosedRun(cli.job, code, FALSE))
    /\ cli' = IdleCli
    /\ UNCHANGED <<admin, now, jobs, sched, shutdown_requested, running_jobs, queue,
                   workers, restarts, hist>>

\* the triggered command is killed at its timeout and recorded
CliTriggerTimeout ==
    /\ cli.pc = "wait"
    /\ Len(runs) < MaxRuns
    /\ now - cli.started_at >= TimeoutTicks
    /\ runs' = create_run(ClosedRun(cli.job, NULL, TRUE))
    /\ cli' = IdleCli
    /\ UNCHANGED <<admin, now, jobs, sched, shutdown_requested, running_jobs, queue,
                   workers, restarts, hist>>

\* ------------------------- POST /api/jobs/{name}/trigger (routes/jobs.py)
\* Served by the gateway thread of the daemon: 400 for a disabled job,
\* otherwise `db.update_next_run(job.id, datetime.now())`.  When the store
\* operation raises, the request fails and no variable changes.
GatewayTrigger(j) ==
    /\ ProcessUp
    /\ jobs[j].enabled
    /\ jobs' = update_next_run(j, now)
    /\ occ_run' = [occ_run EXCEPT ![j] = "nobody"]
    /\ UNCHANGED <<admin, now, runs, sched, shutdown_requested, running_jobs, queue,
                   workers, cli, restarts, lost_runs, failed_runs>>

\* ----------------------------- job management of the CLI (scheduler.py)
\* Each command is a process of its own with its own connection; every store
\* call commits by itself, so the daemon's poll and the gateway's requests can
\* fall between two calls of one command.
daemon == <<runs, sched, shutdown_requested, running_jobs, queue, workers, cli,
            restarts, lost_runs, failed_runs>>

\* history: a job whose next_run was rewritten stands for a new occurrence
OccAfter ==
    occ_run' = [j \in JobIds |->
                   IF jobs'[j].next_run = jobs[j].next_run THEN occ_run[j] ELSE "nobody"]

\* `cc_scheduler add NAME --cron ... [--disabled]`: the existence check and
\* the first run time
CliAddCheck(name, disabled) ==
    /\ mgmt.pc = "idle"
    /\ get_job(name) = 0
    /\ mgmt' = [IdleAdmin EXCEPT
                   !.pc = "add_insert", !.name = name,
                   !.job = [id |-> 0, name |-> name, cron |-> CronPeriod],
                   !.enabled = ~disabled,
                   !.next_run = IF disabled THEN NULL
                                ELSE calculate_next_run(CronPeriod, now)]
    /\ UNCHANGED <<now, jobs, daemon, occ_run, gw, job_seq, utc_offset, cleanup, exec, events, listing, cron_eval>>

\* `job_id = db.add_job(job)`; an IntegrityError ends the command
CliAddInsert ==
    /\ mgmt.pc = "add_insert"
    /\ get_job(mgmt.name) = 0 => job_seq < NumJobs
    /\ jobs' = add_job([name |-> mgmt.name, cron |-> mgmt.job.cron,
                        enabled |-> mgmt.enabled, next_run |-> mgmt.next_run,
                        updated_at |-> UtcNow])
    /\ job_seq' = IF jobs' = jobs THEN job_seq ELSE job_seq + 1
    /\ mgmt' = IdleAdmin
    /\ UNCHANGED <<now, daemon, occ_run, gw, utc_offset, cleanup, exec, events, listing, cron_eval>>

\* `cc_scheduler enable NAME`: `job = db.get_job(name)`, not enabled
CliEnableRead(name) ==
    /\ mgmt.pc = "idle"
    /\ get_job(name) # 0
    /\ ~jobs[get_job(name)].enabled
    /\ mgmt' = [IdleAdmin EXCEPT !.pc = "enable_set", !.name = name,
                                 !.job = Snapshot(get_job(name))]
    /\ UNCHANGED <<now, jobs, daemon, occ_run, gw, job_seq, utc_offset, cleanup, exec, events, listing, cron_eval>>

\* `db.set_job_enabled(name, True)`
CliEnableSet ==
    /\ mgmt.pc = "enable_set"
    /\ jobs' = set_job_enabled(mgmt.name, TRUE)
    /\ mgmt' = [mgmt EXCEPT !.pc = "enable_next_run"]
    /\ UNCHANGED <<now, daemon, occ_run, gw, job_seq, utc_offset, cleanup, exec, events, listing, cron_eval>>

\* `next_run = calculate_next_run(job.cron)`, `db.update_next_run(job.id, next_run)`
CliEnableNextRun ==
    /\ mgmt.pc = "enable_next_run"
    /\ jobs' = update_next_run(mgmt.job.id, calculate_next_run(mgmt.job.cron, now))
    /\ OccAfter
    /\ mgmt' = IdleAdmin
    /\ UNCHANGED <<now, daemon, gw, job_seq, utc_offset, cleanup, exec, events, listing, cron_eval>>

\* `cc_scheduler edit NAME [--cron ...] [--cmd ...]`: `job = db.get_job(name)`
\* and the options; a new cron brings a new next_run when the job is enabled
CliEditRead(name, with_cron) ==
    /\ mgmt.pc = "idle"
    /\ get_job(name) # 0
    /\ LET row == jobs[get_job(name)] IN
       mgmt' = [pc |-> "edit_write", name |-> name,
                job |-> Snapshot(get_job(name)),
                enabled |-> row.enabled,
                next_run |-> IF with_cron /\ row.enabled
                             THEN calculate_next_run(CronPeriod, now)
                             ELSE row.next_run,
                with_cron |-> with_cron, with_enabled |-> FALSE]
    /\ UNCHANGED <<now, jobs, daemon, occ_run, gw, job_seq, utc_offset, cleanup, exec, events, listing, cron_eval>>

\* `db.update_job(job)`
CliEditWrite ==
    /\ mgmt.pc = "edit_write"
    /\ jobs' = update_job(mgmt.job.id, mgmt.job.cron, mgmt.enabled, mgmt.next_run)
    /\ OccAfter
    /\ mgmt' = IdleAdmin
    /\ UNCHANGED <<now, daemon, gw, job_seq, utc_offset, cleanup, exec, events, listing, cron_eval>>

\* `cc_scheduler disable NAME`
CliDisable(name) ==
    /\ mgmt.pc = "idle"
    /\ get_job(name) # 0
    /\ jobs[get_job(name)].enabled
    /\ jobs' = set_job_enabled(name, FALSE)
    /\ UNCHANGED <<now, daemon, occ_run, admin>>

\* `cc_scheduler delete NAME --force`
CliDelete(name) ==
    /\ mgmt.pc = "idle"
    /\ get_job(name) # 0
    /\ jobs' = delete_job(name)
    /\ OccAfter
    /\ UNCHANGED <<now, daemon, admin>>

\* ------------------------------- job routes of the gateway (routes/jobs.py)
\* The handlers run on the gateway thread of the daemon, one at a time, on the
\* daemon's connection.  A store operation may raise; the request then fails
\* and what it had not written stays unwritten.
\* POST /api/jobs: the existence check (409 when the name is there); next_run
\* is computed whether the job is created enabled or not
GatewayCreateCheck(name, enabled) ==
    /\ ProcessUp
    /\ gw.pc = "idle"
    /\ get_job(name) = 0
    /\ gw' = [IdleAdmin EXCEPT
                 !.pc = "create_insert", !.name = name,
                 !.job = [id |-> 0, name |-> name, cron |-> CronPeriod],
                 !.enabled = enabled,
                 !.next_run = calculate_next_run(CronPeriod, now)]
    /\ UNCHANGED <<now, jobs, daemon, occ_run, mgmt, job_seq, utc_offset, cleanup, exec, events, listing, cron_eval>>

\* `job_id = db.add_job(job)`
GatewayCreateInsert ==
    /\ gw.pc = "create_insert"
    /\ get_job(gw.name) = 0 => job_seq < NumJobs
    /\ jobs' = add_job([name |-> gw.name, cron |-> gw.job.cron,
                        enabled |-> gw.enabled, next_run |-> gw.next_run,
                        updated_at |-> UtcNow])
    /\ job_seq' = IF jobs' = jobs THEN job_seq ELSE job_seq + 1
    /\ gw' = IdleAdmin
    /\ UNCHANGED <<now, daemon, occ_run, mgmt, utc_offset, cleanup, exec, events, listing, cron_eval>>

\* PUT /api/jobs/{name}: `job = db.get_job(name)` and the fields of the
\* request; a cron in the request brings a new next_run, an enabled flag in
\* the request does not
GatewayUpdateRead(name, with_cron, with_enabled, enabled) ==
    /\ ProcessUp
    /\ gw.pc = "idle"
    /\ get_job(name) # 0
    /\ LET row == jobs[get_job(name)] IN
       gw' = [pc |-> "update_write", name |-> name,
              job |-> Snapshot(get_job(name)),
              enabled |-> IF with_enabled THEN enabled ELSE row.enabled,
              next_run |-> IF with_cron THEN calculate_next_run(CronPeriod, now)
                           ELSE row.next_run,
              with_cron |-> with_cron, with_enabled |-> with_enabled]
    /\ UNCHANGED <<now, jobs, daemon, occ_run, mgmt, job_seq, utc_offset, cleanup, exec, events, listing, cron_eval>>

\* `db.update_job(job)`
GatewayUpdateWrite ==
    /\ gw.pc = "update_write"
    /\ jobs' = update_job(gw.job.id, gw.job.cron, gw.enabled, gw.next_run)
    /\ OccAfter
    /\ gw' = IdleAdmin
    /\ UNCHANGED <<now, daemon, mgmt, job_seq, utc_offset, cleanup, exec, events, listing, cron_eval>>

\* the store operation of a request in progress raises, or the daemon is gone
GatewayRaises ==
    /\ gw.pc # "idle"
    /\ gw' = IdleAdmin
    /\ UNCHANGED <<now, jobs, daemon, occ_run, mgmt, job_seq, utc_offset, cleanup, exec, events, listing, cron_eval>>

\* POST /api/jobs/{name}/enable: `db.set_job_enabled(name, True)` and nothing else
GatewayEnable(name) ==
    /\ ProcessUp
    /\ gw.pc = "idle"
    /\ get_job(name) # 0
    /\ ~jobs[get_job(name)].enabled
    /\ jobs' = set_job_enabled(name, TRUE)
    /\ UNCHANGED <<now, daemon, occ_run, admin>>

\* POST /api/jobs/{name}/disable
GatewayDisable(name) ==
    /\ ProcessUp
    /\ gw.pc = "idle"
    /\ get_job(name) # 0
    /\ jobs[get_job(name)].enabled
    /\ jobs' = set_job_enabled(name, FALSE)
    /\ UNCHANGED <<now, daemon, occ_run, admin>>

\* DELETE /api/jobs/{name}
GatewayDelete(name) ==
    /\ ProcessUp
    /\ gw.pc = "idle"
    /\ get_job(name) # 0
    /\ jobs' = delete_job(name)
    /\ OccAfter
    /\ UNCHANGED <<now, daemon, admin>>

\* ------------------------------------------------------------ environment
\* The daemon process dies (kill -9, power loss): its threads, its children,
\* the guard set and the flag are gone; the store keeps every committed row.
Crash ==
    /\ ProcessUp
    /\ restarts < MaxRestarts
    /\ sched' = [StartingScheduler EXCEPT !.pc = "down"]
    /\ workers' = [w \in WorkerIds |-> IdleWorker]
    /\ queue' = <<>>
    /\ running_jobs' = {}
    /\ shutdown_requested' = FALSE
    /\ lost_runs' = lost_runs \cup
          { workers[w].run_id : w \in { v \in WorkerIds : workers[v].pc \in {"execute", "wait"} } }
    /\ occ_run' = [j \in JobIds |->
                      IF occ_run[j] = "nobody" THEN "nobody" ELSE "earlier process"]
    /\ UNCHANGED <<admin, now, jobs, runs, cli, restarts, failed_runs>>

\* A restart that closes the Run rows left open.  Not the program; the faulty
\* variant against which C16_OrphanRunStaysOpen is tried.
RestartClosesOpenRuns ==
    /\ sched.pc \in {"down", "stopped"}
    /\ restarts < MaxRestarts
    /\ restarts' = restarts + 1
    /\ sched' = StartingScheduler
    /\ shutdown_requested' = FALSE
    /\ runs' = [r \in 1..Len(runs) |->
                   IF runs[r].ended_at = NULL
                   THEN [runs[r] EXCEPT !.ended_at = Stamp, !.exit_code = 1]
                   ELSE runs[r]]
    /\ UNCHANGED <<admin, now, jobs, running_jobs, queue, workers, cli,
                   lost_runs, failed_runs, occ_run>>

\* The service is started again: module globals are fresh.
Restart ==
    /\ sched.pc \in {"down", "stopped"}
    /\ restarts < MaxRestarts
    /\ restarts' = restarts + 1
    /\ sched' = StartingScheduler
    /\ shutdown_requested' = FALSE
    /\ UNCHANGED <<admin, now, jobs, runs, running_jobs, queue, workers, cli,
                   lost_runs, failed_runs, occ_run>>

\* Time passes, but not past the deadline of a running child: its timeout
\* fires first.
Tick ==
    /\ now < MaxTime
    /\ \A w \in WorkerIds :
          workers[w].pc = "wait" => now - workers[w].started_at < TimeoutTicks
    /\ cli.pc = "wait" => now - cli.started_at < TimeoutTicks
    /\ now' = now + 1
    /\ UNCHANGED <<admin, jobs, runs, sched, shutdown_requested, running_jobs,
                   queue, workers, cli, restarts, hist>>

\* ------------------------------------------------------------------- spec
Next ==
    \/ Startup
    \/ LoopTest
    \/ Poll
    \/ PollRaises
    \/ Dispatch
    \/ Submit
    \/ Sleep
    \/ Finally
    \/ Signal
    \/ \E w \in WorkerIds : StartRunJob(w)
    \/ \E w \in WorkerIds : ReturnSkipped(w)
    \/ \E w \in WorkerIds : CreateRun(w)
    \/ \E w \in WorkerIds : StoreRaises(w)
    \/ \E w \in WorkerIds : Spawn(w)
    \/ \E w \in WorkerIds : SpawnFails(w)
    \/ \E w \in WorkerIds : ProcExit(w)
    \/ \E w \in WorkerIds : ProcTimeout(w)
    \/ \E w \in WorkerIds : UpdateNextRun(w)
    \/ \E w \in WorkerIds : Release(w)
    \/ \E j \in JobIds : CliTrigger(j)
    \/ CliTriggerExit
    \/ CliTriggerTimeout
    \/ \E j \in JobIds : GatewayTrigger(j)
    \/ Crash
    \/ Restart
    \/ Tick

Spec == Init /\ [][Next]_vars

\* ------------------------------------------------------- job management
\* The management commands of the CLI and the job routes of the gateway on
\* one table, one command and one request at a time, while time passes.  The
\* daemon is up and serves the gateway.  The table starts with one job and
\* either a second, disabled one or room for one.
ManageInit ==
    /\ now = 0
    /\ \E first \in InitJobRows, second \in {r \in InitJobRows : ~r.enabled} :
          \/ /\ jobs = [j \in JobIds |-> IF j = 1 THEN JobRow(1, first)
                                         ELSE IF j = 2 THEN JobRow(2, second) ELSE NoRow]
             /\ job_seq = 2
          \/ /\ jobs = [j \in JobIds |-> IF j = 1 THEN JobRow(1, first) ELSE NoRow]
             /\ job_seq = 1
    /\ runs = <<>>
    /\ sched = StartingScheduler
    /\ shutdown_requested = FALSE
    /\ running_jobs = {}
    /\ queue = <<>>
    /\ workers = [w \in WorkerIds |-> IdleWorker]
    /\ cli = IdleCli
    /\ restarts = 0
    /\ lost_runs = {}
    /\ failed_runs = {}
    /\ occ_run = [j \in JobIds |-> "nobody"]
    /\ mgmt = IdleAdmin
    /\ gw = IdleAdmin
    /\ utc_offset = 0
    /\ cleanup = NoCleanup
    /\ exec = IdleExec
    /\ events = <<>>
    /\ listing = NoListing
    /\ cron_eval = NoCronCall

ManageNext ==
    \/ \E name \in JobNames, disabled \in BOOLEAN : CliAddCheck(name, disabled)
    \/ CliAddInsert
    \/ \E name \in JobNames : CliEnableRead(name)
    \/ CliEnableSet
    \/ CliEnableNextRun
    \/ \E name \in JobNames : CliDisable(name)
    \/ \E name \in JobNames : CliDelete(name)
    \/ \E name \in JobNames, enabled \in BOOLEAN : GatewayCreateCheck(name, enabled)
    \/ GatewayCreateInsert
    \/ \E name \in JobNames, with_cron, with_enabled, enabled \in BOOLEAN :
          GatewayUpdateRead(name, with_cron, with_enabled, enabled)
    \/ GatewayUpdateWrite
    \/ GatewayRaises
    \/ \E name \in JobNames : GatewayEnable(name)
    \/ \E name \in JobNames : GatewayDisable(name)
    \/ \E name \in JobNames : GatewayDelete(name)
    \/ \E j \in JobIds : GatewayTrigger(j)
    \/ Tick

SpecManage == ManageInit /\ [][ManageNext]_vars

\* The edits of a job (`cc_scheduler edit`, PUT /jobs/{name}) against the
\* other writers of its row: enable, disable and trigger.
EditNext ==
    \/ \E name \in JobNames, with_cron \in BOOLEAN : CliEditRead(name, with_cron)
    \/ CliEditWrite
    \/ \E name \in JobNames : CliEnableRead(name)
    \/ CliEnableSet
    \/ CliEnableNextRun
    \/ \E name \in JobNames : CliDisable(name)
    \/ \E name \in JobNames, with_cron, with_enabled, enabled \in BOOLEAN :
          GatewayUpdateRead(name, with_cron, with_enabled, enabled)
    \/ GatewayUpdateWrite
    \/ GatewayRaises
    \/ \E name \in JobNames : GatewayEnable(name)
    \/ \E name \in JobNames : GatewayDisable(name)
    \/ \E j \in JobIds : GatewayTrigger(j)
    \/ Tick

SpecEdit == ManageInit /\ [][EditNext]_vars

\* ------------------------------------------ execute_job (executor.py)
\* One call of execute_job followed step by step, with the child process as
\* a party of its own.  In this specification one tick of `now` is one second.
\* The child exits when it likes: by itself, on SIGTERM, after SIGKILL, or
\* not within any of the waits.
ExecMaxTime == 17

\* timeout_seconds of the calls
ExecTimeouts == {1, 2}

\* `process.wait(timeout=5)` in _kill_process, `communicate(timeout=5)` after it
GracePeriod == 5

rest == <<jobs, runs, sched, shutdown_requested, running_jobs, queue, workers, cli,
          restarts, hist, mgmt, gw, job_seq, utc_offset, cleanup, events, listing, cron_eval>>

\* `started_at = datetime.now()`
ExecStart(timeout_seconds) ==
    /\ exec.pc = "idle"
    /\ now + timeout_seconds + 3 * GracePeriod <= ExecMaxTime
    /\ exec' = [IdleExec EXCEPT !.pc = "popen", !.timeout_seconds = timeout_seconds,
                                !.started_at = now]
    /\ UNCHANGED <<now, rest>>

\* `ended_at = datetime.now()`, the duration, `return RunResult(...)`
Result(e, exit_code) ==
    [e EXCEPT !.pc = "done", !.exit_code = exit_code,
              !.duration_seconds = now - e.started_at]

\* `process = subprocess.Popen(...)`, then `process.communicate(timeout=timeout_seconds)`
ExecPopen ==
    /\ exec.pc = "popen"
    /\ exec' = [exec EXCEPT !.pc = "communicate", !.proc = "running", !.wait_start = now]
    /\ UNCHANGED <<now, rest>>

\* Popen raises FileNotFoundError, PermissionError or another OSError
ExecPopenFails ==
    /\ exec.pc = "popen"
    /\ \E code \in SpawnErrors : exec' = Result(exec, code)
    /\ UNCHANGED <<now, rest>>

\* the child exits
ChildExit ==
    /\ exec.proc = "running"
    /\ \E code \in ExitCodes : exec' = [exec EXCEPT !.proc = "exited", !.returncode = code]
    /\ UNCHANGED <<now, rest>>

\* communicate returns: `exit_code = process.returncode`
ExecCommunicateReturns ==
    /\ exec.pc = "communicate"
    /\ exec.proc = "exited"
    /\ exec' = Result(exec, exec.returncode)
    /\ UNCHANGED <<now, rest>>

\* `except subprocess.TimeoutExpired: timed_out = True`.  The child may have
\* exited in the meantime while a descendant keeps its pipes open.
ExecTimeoutExpired ==
    /\ exec.pc = "communicate"
    /\ now - exec.wait_start >= exec.timeout_seconds
    /\ exec' = [exec EXCEPT !.pc = "terminate", !.timed_out = TRUE]
    /\ UNCHANGED <<now, rest>>

\* A _kill_process that starts with the forced kill.  Not the program; the
\* faulty variant against which C15_TimeoutKillsGracefullyFirst is tried.
KillAtOnce ==
    /\ exec.pc = "terminate"
    /\ exec' = [exec EXCEPT !.pc = "killed", !.kill_sent = TRUE, !.wait_start = now]
    /\ UNCHANGED <<now, rest>>

\* _kill_process: `process.terminate()`, then `process.wait(timeout=5)`
KillTerminate ==
    /\ exec.pc = "terminate"
    /\ exec' = [exec EXCEPT !.pc = "grace", !.term_sent = TRUE, !.wait_start = now]
    /\ UNCHANGED <<now, rest>>

\* the wait returns: the child has exited
KillWaitReturns ==
    /\ exec.pc \in {"grace", "killed"}
    /\ exec.proc = "exited"
    /\ exec' = [exec EXCEPT !.pc = "drain", !.wait_start = now]
    /\ UNCHANGED <<now, rest>>

\* `except subprocess.TimeoutExpired: process.kill()`, then the second wait
KillGraceExpired ==
    /\ exec.pc = "grace"
    /\ exec.proc = "running"
    /\ now - exec.wait_start >= GracePeriod
    /\ exec' = [exec EXCEPT !.pc = "killed", !.kill_sent = TRUE, !.wait_start = now]
    /\ UNCHANGED <<now, rest>>

\* the second wait times out too: `pass`
KillGivesUp ==
    /\ exec.pc = "killed"
    /\ exec.proc = "running"
    /\ now - exec.wait_start >= GracePeriod
    /\ exec' = [exec EXCEPT !.pc = "drain", !.wait_start = now]
    /\ UNCHANGED <<now, rest>>

\* `process.communicate(timeout=5)` returns or times out; `exit_code = None`
ExecDrain ==
    /\ exec.pc = "drain"
    /\ exec' = Result(exec, NULL)
    /\ UNCHANGED <<now, rest>>

\* A second passes, unless a wait of the executor is over.
ExecTick ==
    /\ now < ExecMaxTime
    /\ exec.pc \notin {"idle", "done"}
    /\ exec.pc = "communicate" => now - exec.wait_start < exec.timeout_seconds
    /\ exec.pc \in {"grace", "killed", "drain"} => now - exec.wait_start < GracePeriod
    /\ now' = now + 1
    /\ UNCHANGED <<exec, rest>>

ExecNext ==
    \/ \E timeout_seconds \in ExecTimeouts : ExecStart(timeout_seconds)
    \/ ExecPopen
    \/ ExecPopenFails
    \/ ChildExit
    \/ ExecCommunicateReturns
    \/ ExecTimeoutExpired
    \/ KillTerminate
    \/ KillWaitReturns
    \/ KillGraceExpired
    \/ KillGivesUp
    \/ ExecDrain
    \/ ExecTick

SpecExec == Init /\ [][ExecNext]_vars

\* ---------------------------------------------------- the run ledger
\* cleanup_old_runs(days), the retention operation of the store
RetentionDays == {1, 2}

CleanupOldRuns(days) ==
    /\ runs' = cleanup_old_runs(days)
    /\ cleanup' = [days |-> days,
                   count |-> Cardinality({ r \in 1..Len(runs) : runs'[r] # runs[r] })]
    /\ UNCHANGED <<now, jobs, sched, shutdown_requested, running_jobs, queue, workers,
                   cli, restarts, hist, mgmt, gw, job_seq, utc_offset, exec, events, listing, cron_eval>>

\* A ledger with history: the scheduler has been up for three days on a
\* machine one hour east of UTC, on UTC or one hour west of it.  Each job has
\* a closed Run started a little less or a little more than a day ago, and
\* the first job is running: a pool thread waits for its child.
LedgerNow == 3 * DayTicks

RunAges == {DayTicks - HourTicks \div 2, DayTicks + HourTicks \div 2}

LedgerInit ==
    /\ now = LedgerNow
    /\ utc_offset \in {-HourTicks, 0, HourTicks}
    /\ jobs = [j \in JobIds |->
                  JobRow(j, [enabled |-> TRUE, next_run |-> LedgerNow, cron |-> CronPeriod])]
    /\ job_seq = NumJobs
    /\ \E age \in [JobIds -> RunAges] :
          runs = [r \in 1..(NumJobs + 1) |->
                    IF r \in JobIds
                    THEN [job_id |-> r, job_name |-> jobs[r].name,
                          started_at |-> LedgerNow - age[r], ended_at |-> LedgerNow - age[r],
                          exit_code |-> 0, timed_out |-> FALSE]
                    ELSE [job_id |-> 1, job_name |-> jobs[1].name,
                          started_at |-> LedgerNow, ended_at |-> NULL,
                          exit_code |-> NULL, timed_out |-> FALSE]]
    /\ sched = [StartingScheduler EXCEPT !.pc = "sleep", !.sleep_start = LedgerNow]
    /\ shutdown_requested = FALSE
    /\ running_jobs = {1}
    /\ queue = <<>>
    /\ workers = [w \in WorkerIds |->
                     IF w = 1
                     THEN [pc |-> "wait", job |-> Snapshot(1), run_id |-> NumJobs + 1,
                           started_at |-> LedgerNow]
                     ELSE IdleWorker]
    /\ cli = IdleCli
    /\ restarts = 0
    /\ lost_runs = {}
    /\ failed_runs = {}
    /\ occ_run = [j \in JobIds |-> IF j = 1 THEN "this process" ELSE "nobody"]
    /\ mgmt = IdleAdmin
    /\ gw = IdleAdmin
    /\ cleanup = NoCleanup
    /\ exec = IdleExec
    /\ events = <<>>
    /\ listing = NoListing
    /\ cron_eval = NoCronCall

LedgerNext ==
    \/ \E w \in WorkerIds : ProcExit(w)
    \/ \E w \in WorkerIds : StoreRaises(w)
    \/ \E w \in WorkerIds : UpdateNextRun(w)
    \/ \E w \in WorkerIds : Release(w)
    \/ \E name \in JobNames : CliDelete(name)
    \/ \E name \in JobNames : GatewayDelete(name)
    \/ \E days \in RetentionDays : CleanupOldRuns(days)

SpecLedger == LedgerInit /\ [][LedgerNext]_vars

\* ------------------------------------------------ reading the run ledger
\* rows of the ledger that is queried
QueryRows == 3
\* the instants at which its runs started
QueryTimes == 0..1
\* `since` of the queries: not given, or the later instant
QuerySince == {NULL, 1}
\* limits of the queries: `--limit` of the CLI and `limit` of the gateway
\* take any integer
QueryLimits == {-1, 2}

\* What a row can hold: a run in progress, a run that exited with 0 or with
\* 1, a run that timed out (exit_code None).
RunOutcomes ==
    { [ended |-> FALSE, exit_code |-> NULL, timed_out |-> FALSE],
      [ended |-> TRUE, exit_code |-> 0, timed_out |-> FALSE],
      [ended |-> TRUE, exit_code |-> 1, timed_out |-> FALSE],
      [ended |-> TRUE, exit_code |-> NULL, timed_out |-> TRUE] }

\* A ledger of QueryRows rows, in the order of their creation.  run_job
\* inserts its row when the run starts; `cc_scheduler trigger` inserts its
\* row when the command has ended, with the started_at it took before, so a
\* row can be younger than another one and carry the earlier started_at.
\* The oldest row is of the first job.
QueryInit ==
    /\ now = 2
    /\ utc_offset = 0
    /\ jobs = [j \in JobIds |->
                  JobRow(j, [enabled |-> TRUE, next_run |-> 2, cron |-> CronPeriod])]
    /\ job_seq = NumJobs
    /\ \E name \in { n \in [1..QueryRows -> JobNames] : n[1] = 1 },
          at \in [1..QueryRows -> QueryTimes], out \in [1..QueryRows -> RunOutcomes] :
          runs = [r \in 1..QueryRows |->
                    [job_id |-> get_job(name[r]), job_name |-> name[r],
                     started_at |-> at[r],
                     ended_at |-> IF out[r].ended THEN now ELSE NULL,
                     exit_code |-> out[r].exit_code, timed_out |-> out[r].timed_out]]
    /\ sched = [StartingScheduler EXCEPT !.pc = "sleep", !.sleep_start = 2]
    /\ shutdown_requested = FALSE
    /\ running_jobs = {}
    /\ queue = <<>>
    /\ workers = [w \in WorkerIds |-> IdleWorker]
    /\ cli = IdleCli
    /\ restarts = 0
    /\ lost_runs = {}
    /\ failed_runs = {}
    /\ occ_run = [j \in JobIds |-> "nobody"]
    /\ mgmt = IdleAdmin
    /\ gw = IdleAdmin
    /\ cleanup = NoCleanup
    /\ exec = IdleExec
    /\ events = <<>>
    /\ listing = NoListing
    /\ cron_eval = NoCronCall

\* `cc_scheduler runs [--job J] [--limit N] [--failed] [--since T]` and
\* GET /api/runs: one call of list_runs
ListRuns(job_name, limit, failed_only, since) ==
    /\ \E rows \in list_runs(job_name, limit, failed_only, since) :
          listing' = [op |-> "list_runs", job_name |-> job_name, limit |-> limit,
                      failed_only |-> failed_only, since |-> since, rows |-> rows]
    /\ UNCHANGED <<now, jobs, daemon, occ_run, mgmt, gw, job_seq, utc_offset, cleanup,
                   exec, events, cron_eval>>

\* `cc_scheduler show NAME` and `cc_scheduler logs NAME`: one call of get_last_run
GetLastRun(job_name) ==
    /\ \E rows \in get_last_run(job_name) :
          listing' = [op |-> "get_last_run", job_name |-> job_name, limit |-> 1,
                      failed_only |-> FALSE, since |-> NULL, rows |-> rows]
    /\ UNCHANGED <<now, jobs, daemon, occ_run, mgmt, gw, job_seq, utc_offset, cleanup,
                   exec, events, cron_eval>>

QueryNext ==
    \/ \E job_name \in {0} \cup JobNames, limit \in QueryLimits,
          failed_only \in BOOLEAN, since \in QuerySince :
          ListRuns(job_name, limit, failed_only, since)
    \/ \E job_name \in JobNames : GetLastRun(job_name)

SpecQuery == QueryInit /\ [][QueryNext]_vars

\* ------------------------------------------------ calculate_next_run alone
\* the latest from_time of the calls: the calls cover the instants of one week
MaxFrom == 13

\* The expressions of the calls: steps 0 ("*/0", refused), 1 and 2, with
\* every day ("*"), the working days ("1-5"), the weekend ("0,6"), one day
\* ("3"), and a day out of range ("8", refused).
CronExpressions ==
    [every : 0..CronDayTicks, days : {AllDays, 1..5, {0, 6}, {3}, {8}}]

CronInit ==
    /\ now = 0
    /\ utc_offset = 0
    /\ jobs \in InitJobTables
    /\ job_seq = NumJobs
    /\ runs = <<>>
    /\ sched = StartingScheduler
    /\ shutdown_requested = FALSE
    /\ running_jobs = {}
    /\ queue = <<>>
    /\ workers = [w \in WorkerIds |-> IdleWorker]
    /\ cli = IdleCli
    /\ restarts = 0
    /\ lost_runs = {}
    /\ failed_runs = {}
    /\ occ_run = [j \in JobIds |-> "nobody"]
    /\ mgmt = IdleAdmin
    /\ gw = IdleAdmin
    /\ cleanup = NoCleanup
    /\ exec = IdleExec
    /\ events = <<>>
    /\ listing = NoListing
    /\ \E expression \in CronExpressions, from_time \in 0..MaxFrom :
          cron_eval = [pc |-> "call", expression |-> expression,
                       from_time |-> from_time, value |-> NULL]

cron_rest == <<now, jobs, daemon, occ_run, mgmt, gw, job_seq, utc_offset, cleanup,
               exec, events, listing>>

\* `cron = croniter(expression, from_time)`, `return cron.get_next(datetime)`
CalculateNextRunReturns ==
    /\ cron_eval.pc = "call"
    /\ validate_cron(cron_eval.expression)
    /\ cron_eval' = [cron_eval EXCEPT
                        !.pc = "returned",
                        !.value = get_next(cron_eval.expression, cron_eval.from_time)]
    /\ UNCHANGED cron_rest

\* `except (ValueError, KeyError) as e: raise ValueError(...)`
CalculateNextRunRaises ==
    /\ cron_eval.pc = "call"
    /\ ~validate_cron(cron_eval.expression)
    /\ cron_eval' = [cron_eval EXCEPT !.pc = "raised"]
    /\ UNCHANGED cron_rest

CronNext ==
    \/ CalculateNextRunReturns
    \/ CalculateNextRunRaises

SpecCron == CronInit /\ [][CronNext]_vars

\* ------------------------------------- the poll cycle while a job is enabled
\* The daemon's main thread and its pool together with the operations that
\* enable and disable a job.  The first job is scheduled and left alone; the
\* commands and requests are about the last job, which starts disabled with
\* the next_run it had when it was disabled.  The pool threads run on the
\* connection the main thread opened, so their first store call raises.
ManagedNames == {NumJobs}

EnableNext ==
    \/ Startup
    \/ LoopTest
    \/ Poll
    \/ Dispatch
    \/ Submit
    \/ Sleep
    \/ \E w \in WorkerIds : StartRunJob(w)
    \/ \E w \in WorkerIds : ReturnSkipped(w)
    \/ \E w \in WorkerIds : StoreRaises(w)
    \/ \E w \in WorkerIds : Release(w)
    \/ \E name \in ManagedNames : CliEnableRead(name)
    \/ CliEnableSet
    \/ CliEnableNextRun
    \/ \E name \in ManagedNames : CliDisable(name)
    \/ \E name \in ManagedNames, with_cron, with_enabled, enabled \in BOOLEAN :
          GatewayUpdateRead(name, with_cron, with_enabled, enabled)
    \/ GatewayUpdateWrite
    \/ GatewayRaises
    \/ \E name \in ManagedNames : GatewayEnable(name)
    \/ \E name \in ManagedNames : GatewayDisable(name)
    \/ Tick

SpecEnable == Init /\ [][EnableNext]_vars

\* run_job from the poll to the end of the run while the job it was handed
\* is disabled or deleted by a command.
StartNext ==
    \/ Startup
    \/ LoopTest
    \/ Poll
    \/ Dispatch
    \/ Submit
    \/ Sleep
    \/ \E w \in WorkerIds : StartRunJob(w)
    \/ \E w \in WorkerIds : ReturnSkipped(w)
    \/ \E w \in WorkerIds : CreateRun(w)
    \/ \E w \in WorkerIds : StoreRaises(w)
    \/ \E w \in WorkerIds : Spawn(w)
    \/ \E w \in WorkerIds : SpawnFails(w)
    \/ \E w \in WorkerIds : ProcExit(w)
    \/ \E w \in WorkerIds : UpdateNextRun(w)
    \/ \E w \in WorkerIds : Release(w)
    \/ \E name \in JobNames : CliDisable(name)
    \/ \E name \in JobNames : CliDelete(name)
    \/ Tick

SpecStart == Init /\ [][StartNext]_vars

\* ================================================================ properties
\* A pool thread is inside the guarded part of run_job: it holds its job id
\* in _running_jobs.
InFlight(w) == workers[w].pc \in {"create_run", "execute", "wait", "next_run", "release"}

\* The daemon process died in this step.
Crashed == sched.pc # "down" /\ sched'.pc = "down"

OpenRuns == { r \in 1..Len(runs) : runs[r] # NoRun /\ runs[r].ended_at = NULL }

\* C1: within one scheduler process no two executions of the same job are in
\* flight at once: two pool threads inside the guarded part of run_job never
\* hold the same job id, every such thread's id is in _running_jobs, and a job
\* has at most one child process and at most one Run row of a thread in flight,
\* however many later poll cycles found the job due.
C1_NoTwoExecutionsInFlight ==
    /\ \A v, w \in WorkerIds :
          (v # w /\ InFlight(v) /\ InFlight(w)) => workers[v].job.id # workers[w].job.id
    /\ \A w \in WorkerIds : InFlight(w) => workers[w].job.id \in running_jobs
    /\ \A j \in JobIds :
          /\ Cardinality({ w \in WorkerIds : workers[w].pc = "wait" /\ workers[w].job.id = j }) <= 1
          /\ Cardinality({ w \in WorkerIds : workers[w].run_id # 0 /\ workers[w].job.id = j }) <= 1

\* C1 witness: a child has been running for a whole poll interval or more, a
\* later poll cycle submitted the job again, and that second run_job was
\* turned away while the ledger still holds the single Run row.
C1_Witness_SecondPollTurnedAway ==
    \E v, w \in WorkerIds :
        /\ workers[v].pc = "wait"
        /\ now - workers[v].started_at >= CheckInterval
        /\ workers[w].pc = "skipped"
        /\ workers[w].job.id = workers[v].job.id
        /\ Cardinality({ r \in 1..Len(runs) : runs[r].job_id = workers[v].job.id }) = 1

\* C2: every enabled due job is eventually executed.  In its finite form: an
\* admitted run_job is never abandoned - from create_run it goes on to execute
\* with its Run row written, the result of the command is recorded in a closed
\* Run row, and the step after that leaves next_run advanced past now.
C2_AdmittedRunIsCarriedThrough ==
    [][ \A w \in WorkerIds :
          Crashed \/
          /\ workers[w].pc = "create_run" =>
                \/ workers'[w] = workers[w]
                \/ /\ workers'[w].pc = "execute"
                   /\ workers'[w].run_id \in OpenRuns'
          /\ (workers[w].pc \in {"execute", "wait"} /\ workers'[w].pc \notin {"execute", "wait"}) =>
                /\ workers'[w].pc = "next_run"
                /\ runs'[workers[w].run_id].ended_at # NULL
          /\ (workers[w].pc = "next_run" /\ workers'[w] # workers[w]) =>
                jobs'[workers[w].job.id].next_run > now
      ]_vars

C4_RunRowBeforeSpawn ==
    /\ \A w \in WorkerIds :
          workers[w].pc = "wait" =>
              /\ workers[w].run_id \in OpenRuns
              /\ runs[workers[w].run_id].job_id = workers[w].job.id
              /\ runs[workers[w].run_id].exit_code = NULL
    /\ cli.pc = "wait" =>
          \E r \in OpenRuns : runs[r].job_id = cli.job.id /\ runs[r].exit_code = NULL

\* The instant n is the first cron occurrence strictly after the instant t.
FirstOccurrenceAfter(expression, t, n) ==
    /\ n > t
    /\ CronMatches(expression, n)
    /\ \A u \in (t + 1)..(n - 1) : ~CronMatches(expression, u)

\* C5: when run_job writes next_run at the end of an admitted run, whatever
\* the executor's outcome, the value is the first cron occurrence strictly
\* after the instant of completion (not after the old next_run): the job is
\* not due any more, every occurrence up to now is skipped, and nothing else
\* in the job table changes.
C5_NextRunComputedFromNow ==
    [][ \A w \in WorkerIds :
          (workers[w].pc = "next_run" /\ workers'[w].pc = "release" /\ jobs' # jobs) =>
              LET id == workers[w].job.id IN
              /\ FirstOccurrenceAfter(jobs[id].cron, now, jobs'[id].next_run)
              /\ ~IsDue(jobs'[id], now)
              /\ jobs' = [jobs EXCEPT ![id].next_run = jobs'[id].next_run]
      ]_vars

\* C5 witness: a run that lasted across a cron occurrence has been recorded
\* and its run_job has rescheduled the job in the future; the occurrence that
\* passed meanwhile is not scheduled.
C5_Witness_MissedOccurrenceSkipped ==
    \E w \in WorkerIds :
        /\ workers[w].pc = "release"
        /\ workers[w].started_at # NULL
        /\ runs[workers[w].run_id].ended_at # NULL
        /\ \E t \in (workers[w].started_at + 1)..now : CronMatches(workers[w].job.cron, t)
        /\ jobs[workers[w].job.id].next_run > now

\* C6: admission is an atomic check-and-insert.  An attempt for an id that is
\* not in the running set is admitted and inserts it; an attempt for an id
\* that is in the set is rejected, and from the rejection to the return of
\* that run_job the running set, the run ledger and the job table are left
\* alone and no child is spawned.
C6_AdmissionIsAtomic ==
    [][ \A w \in WorkerIds :
          /\ (workers[w].pc = "idle" /\ workers'[w].pc # "idle") =>
                LET id == workers'[w].job.id IN
                IF id \in running_jobs
                THEN /\ workers'[w].pc = "skipped"
                     /\ running_jobs' = running_jobs
                     /\ runs' = runs
                     /\ jobs' = jobs
                ELSE /\ workers'[w].pc = "create_run"
                     /\ running_jobs' = running_jobs \cup {id}
          /\ (workers[w].pc = "skipped" /\ workers'[w] # workers[w] /\ ~Crashed) =>
                /\ workers'[w] = IdleWorker
                /\ running_jobs' = running_jobs
                /\ runs' = runs
                /\ jobs' = jobs
      ]_vars

\* C6 witness: two attempts for the same id with no release in between: the
\* first was admitted and has not written its Run row yet, the second was
\* rejected.
C6_Witness_TrueThenFalse ==
    \E v, w \in WorkerIds :
        /\ workers[v].pc = "create_run"
        /\ workers[w].pc = "skipped"
        /\ workers[w].job.id = workers[v].job.id
        /\ running_jobs = {workers[v].job.id}
        /\ runs = <<>>

\* C7: a store operation that raises during a poll cycle does not end the
\* scheduler loop: the step that follows the call of get_due_jobs leaves the
\* main thread inside the loop, with no exception propagating.
C7_PollFailureKeepsLoopRunning ==
    [][ (sched.pc = "poll" /\ sched' # sched /\ ~Crashed) =>
            (sched'.pc \in {"dispatch", "sleep", "loop"} /\ ~sched'.exc)
      ]_vars

C10_TriggerOnlySetsNextRun ==
    [][ /\ cli' # cli =>
              /\ cli'.pc # "wait"
              /\ runs' = runs
              /\ \E j \in JobIds : jobs' = [jobs EXCEPT ![j].next_run = now]
        /\ (jobs' # jobs /\ workers' = workers /\ sched' = sched) =>
              /\ runs' = runs
              /\ \E j \in JobIds : jobs' = [jobs EXCEPT ![j].next_run = now]
      ]_vars

\* The outcomes execute_job can report: an exit code with timed_out false, or
\* a timeout with no exit code.
IsOutcome(run) ==
    /\ run.ended_at # NULL
    /\ \/ (run.timed_out /\ run.exit_code = NULL)
       \/ (~run.timed_out /\ run.exit_code \in ExitCodes \cup SpawnErrors)

C16_OrphanRunStaysOpen ==
    /\ [][ /\ Len(runs') >= Len(runs)
           /\ \A r \in lost_runs : runs'[r] = runs[r]
       ]_vars
    /\ [](\A r \in lost_runs :
             /\ r \in 1..Len(runs)
             /\ runs[r].ended_at = NULL
             /\ runs[r].exit_code = NULL)

\* C16 witness: after the restart the same job has run again and its new Run
\* is closed, beside the Run the dead process left open.
C16_Witness_OrphanBesideLaterRun ==
    /\ restarts = 1
    /\ \E r \in lost_runs : \E q \in 1..Len(runs) :
          /\ q > r
          /\ runs[q].job_id = runs[r].job_id
          /\ runs[q].ended_at # NULL
          /\ runs[r].ended_at = NULL

\* C17: a Run row is changed at most once after its creation, by the run_job
\* call that created it, at completion: a step that changes a row closes a
\* row that was open, is the step of the pool thread holding that run id, and
\* leaves the row's job_id, job_name and started_at alone; a closed row never
\* changes and no row disappears.
C17_RunWrittenOnceByItsCreator ==
    [][ /\ Len(runs') >= Len(runs)
        /\ \A r \in 1..Len(runs) :
              runs'[r] # runs[r] =>
                  /\ runs[r].ended_at = NULL
                  /\ runs'[r].ended_at # NULL
                  /\ runs'[r].job_id = runs[r].job_id
                  /\ runs'[r].job_name = runs[r].job_name
                  /\ runs'[r].started_at = runs[r].started_at
                  /\ \E w \in WorkerIds :
                        /\ workers[w].run_id = r
                        /\ workers[w].pc \in {"execute", "wait"}
                        /\ workers'[w].pc = "next_run"
      ]_vars

\* C17 witness: the ledger holds a closed Run of a job and, after it, an open
\* Run of the same job whose run_job is waiting for its child.
C17_Witness_ClosedBesideRunning ==
    \E w \in WorkerIds : \E r \in 1..Len(runs) :
        /\ workers[w].pc = "wait"
        /\ r < workers[w].run_id
        /\ runs[r].job_id = workers[w].job.id
        /\ runs[r].ended_at # NULL
        /\ runs[workers[w].run_id].ended_at = NULL

C11_EnableRecomputesNextRun ==
    [][ /\ \A j \in JobIds :
              ( /\ Present(jobs[j]) /\ ~jobs[j].enabled /\ jobs'[j].enabled
                /\ ~(mgmt.pc = "enable_set" /\ mgmt'.pc = "enable_next_run") ) =>
                  (jobs'[j].next_run # NULL /\ jobs'[j].next_run > now)
        /\ (mgmt.pc = "enable_next_run" /\ mgmt'.pc = "idle" /\ Present(jobs'[mgmt.job.id])) =>
              jobs'[mgmt.job.id].next_run > now
        /\ (sched.pc = "poll" /\ sched'.pc = "dispatch") =>
              \A k \in 1..Len(sched'.due) :
                  ~(mgmt.pc = "enable_next_run" /\ mgmt.job.id = sched'.due[k].id)
      ]_vars

\* C12: a poll returns exactly the jobs that are enabled and whose next_run is
\* set and not after now, each once, in ascending next_run order; a disabled
\* job and a job scheduled for later are never in the list.  The loop submits
\* the list from its head: each submit appends the head of what is left to
\* the pool's queue.
C12_DueJobsExactAndOrdered ==
    [][ /\ (sched.pc = "poll" /\ sched'.pc = "dispatch") =>
              LET due == sched'.due IN
              /\ { due[k].id : k \in 1..Len(due) } =
                    { j \in JobIds : /\ jobs[j].enabled
                                     /\ jobs[j].next_run # NULL
                                     /\ jobs[j].next_run <= now }
              /\ \A k, l \in 1..Len(due) :
                    k < l => /\ due[k].id # due[l].id
                             /\ jobs[due[k].id].next_run <= jobs[due[l].id].next_run
        /\ (sched.pc = "submit" /\ sched'.pc # "submit") =>
              /\ queue' = Append(queue, Head(sched.due))
              /\ sched'.due = Tail(sched.due)
        /\ (sched.pc = "dispatch" /\ sched'.pc = "submit") =>
              (sched'.due = sched.due /\ queue' = queue)
      ]_vars

\* C12 witness: both jobs were due in one poll, the job with the higher id
\* having the earlier next_run, and they stand in the pool's queue in
\* next_run order.
C12_Witness_SubmittedInNextRunOrder ==
    /\ sched.pc = "dispatch"
    /\ sched.due = <<>>
    /\ Len(queue) = 2
    /\ queue[1].id = 2 /\ queue[2].id = 1
    /\ jobs[2].enabled /\ jobs[1].enabled
    /\ jobs[2].next_run # NULL
    /\ jobs[2].next_run < jobs[1].next_run
    /\ jobs[1].next_run <= now

\* C13: no two rows of table jobs have the same name.  An add_job for a name
\* that is there fails and leaves the table as it was, whether it is the
\* CLI's or the gateway's and also when the other one inserted the name
\* after this one's existence check; an insert that goes through adds one row
\* under an id never given before and changes no other row.
C13_JobNamesUnique ==
    /\ [](\A i, k \in JobIds :
             (i # k /\ Present(jobs[i]) /\ Present(jobs[k])) => jobs[i].name # jobs[k].name)
    /\ [][ /\ ( /\ mgmt.pc = "add_insert" /\ mgmt'.pc = "idle"
                /\ \E i \in JobIds : jobs[i].name = mgmt.name ) =>
                  (jobs' = jobs /\ job_seq' = job_seq)
           /\ ( /\ gw.pc = "create_insert" /\ gw'.pc = "idle"
                /\ \E i \in JobIds : jobs[i].name = gw.name ) =>
                  (jobs' = jobs /\ job_seq' = job_seq)
           /\ job_seq' # job_seq =>
                  /\ job_seq' = job_seq + 1
                  /\ ~Present(jobs[job_seq'])
                  /\ Present(jobs'[job_seq'])
                  /\ \A i \in JobIds \ {job_seq'} : jobs'[i] = jobs[i]
       ]_vars

\* C13 witness: the CLI's add passed its existence check, the gateway then
\* created a job of that name, and the CLI's insert is about to be refused.
C13_Witness_InsertAfterStaleCheck ==
    /\ mgmt.pc = "add_insert"
    /\ gw.pc = "idle"
    /\ job_seq = NumJobs
    /\ Present(jobs[job_seq])
    /\ jobs[job_seq].name = mgmt.name
    /\ jobs[job_seq].enabled # mgmt.enabled

\* C20: update_next_run(job_id, next_run) changes the next_run column of the
\* row with that id and nothing else: not updated_at nor any other column,
\* no other row, no Run row.  Applied again with the same arguments it
\* changes nothing.  For an id without a row it is a no-op that does not
\* fail: the caller goes on.  Stated for the call the CLI's enable makes.
C20_UpdateNextRunFrame ==
    [][ (mgmt.pc = "enable_next_run" /\ mgmt' # mgmt) =>
            LET id == mgmt.job.id IN
            /\ mgmt' = IdleAdmin
            /\ runs' = runs
            /\ job_seq' = job_seq
            /\ \A i \in JobIds \ {id} : jobs'[i] = jobs[i]
            /\ jobs'[id] = [jobs[id] EXCEPT !.next_run = jobs'[id].next_run]
            /\ Present(jobs[id]) => jobs'[id].next_run = calculate_next_run(mgmt.job.cron, now)
            /\ ~Present(jobs[id]) => jobs' = jobs
            /\ LET next_run == calculate_next_run(mgmt.job.cron, now) IN
               update_next_run_in(update_next_run_in(jobs, id, next_run), id, next_run) = jobs'
      ]_vars

\* C20 witness: a row whose next_run was written after its updated_at: the
\* next_run lies more than one cron period after the last stamp, which no
\* operation that stamps the row can leave.
C20_Witness_NextRunNewerThanStamp ==
    /\ mgmt.pc = "idle"
    /\ \E j \in JobIds :
          /\ Present(jobs[j])
          /\ jobs[j].enabled
          /\ jobs[j].next_run > jobs[j].updated_at + CronPeriod
          /\ jobs[j].next_run > now

\* C19: Run rows are removed only by cleanup_old_runs.  Deleting a job
\* removes its row from table jobs and nothing else: its Run rows stay, with
\* the job_id and job_name they carry, and a run of the job that is in flight
\* is still closed when its command ends.  cleanup_old_runs(days) removes
\* exactly the Run rows started before now - days, returns how many they
\* were, and changes no row of table jobs.
C19_RunsRemovedOnlyByCleanup ==
    [][ /\ Len(runs') >= Len(runs)
        /\ (\E r \in 1..Len(runs) : runs[r] # NoRun /\ runs'[r] = NoRun) => cleanup' # cleanup
        /\ (\E j \in JobIds : Present(jobs[j]) /\ ~Present(jobs'[j])) =>
              /\ runs' = runs
              /\ Cardinality({ j \in JobIds : jobs'[j] # jobs[j] }) = 1
        /\ \A w \in WorkerIds :
              (workers[w].pc = "wait" /\ workers'[w].pc = "next_run") =>
                  /\ runs'[workers[w].run_id].ended_at # NULL
                  /\ runs'[workers[w].run_id].job_id = workers[w].job.id
                  /\ runs'[workers[w].run_id].job_name = workers[w].job.name
        /\ cleanup' # cleanup =>
              LET old == { r \in 1..Len(runs) :
                             /\ runs[r] # NoRun
                             /\ runs[r].started_at < now - cleanup'.days * DayTicks }
              IN  /\ \A r \in 1..Len(runs) :
                        runs'[r] = IF r \in old THEN NoRun ELSE runs[r]
                  /\ cleanup'.count = Cardinality(old)
                  /\ jobs' = jobs
      ]_vars

\* C15: a command that is still running when timeout_seconds have elapsed
\* makes execute_job return timed_out = true and exit_code = null with a
\* duration of at least timeout_seconds, after the process was terminated:
\* the graceful signal is sent first and the forced kill only when the
\* process has not exited within the grace period.  timed_out is true in a
\* result only if the timeout fired: a command that exits in time, or that
\* could not be started, is never reported as timed out.
C15_TimeoutKillsGracefullyFirst ==
    /\ [](exec.pc = "done" =>
             /\ exec.duration_seconds >= 0
             /\ exec.timed_out =>
                   /\ exec.exit_code = NULL
                   /\ exec.duration_seconds >= exec.timeout_seconds
                   /\ exec.term_sent
                   /\ exec.proc = "running" => exec.kill_sent
             /\ ~exec.timed_out =>
                   /\ exec.exit_code # NULL
                   /\ ~exec.term_sent /\ ~exec.kill_sent)
    /\ [][ /\ (exec.pc = "communicate" /\ exec'.pc # "communicate" /\ exec.proc = "running") =>
                 /\ exec'.timed_out
                 /\ now - exec.started_at >= exec.timeout_seconds
           /\ (exec'.timed_out /\ ~exec.timed_out) =>
                 /\ exec.pc = "communicate"
                 /\ now - exec.wait_start >= exec.timeout_seconds
           /\ (exec'.term_sent /\ ~exec.term_sent) => (exec.timed_out /\ ~exec.kill_sent)
           /\ (exec'.kill_sent /\ ~exec.kill_sent) =>
                 /\ exec.term_sent
                 /\ exec.proc = "running"
                 /\ exec.pc = "grace"
                 /\ now - exec.wait_start >= GracePeriod
       ]_vars

\* C15 witness: the command ignored the graceful signal for the whole grace
\* period, was killed, and the call returned the timeout result.
C15_Witness_KilledAfterGrace ==
    /\ exec.pc = "done"
    /\ exec.timed_out
    /\ exec.exit_code = NULL
    /\ exec.term_sent /\ exec.kill_sent
    /\ exec.proc = "exited"
    /\ exec.duration_seconds >= exec.timeout_seconds + GracePeriod

\* C24: the loop admits before it submits: it submits run_job only for a job
\* whose id is not in the running set, so the pool's queue never holds a
\* submission for a job that is running.
C24_QueueHoldsNoRunningJob ==
    /\ \A k \in 1..Len(queue) : queue[k].id \notin running_jobs
    /\ sched.pc = "submit" => Head(sched.due).id \notin running_jobs

\* C25: a run_job call that admitted its job id removes the id from the
\* running set before it returns, on every exit path: the set holds exactly
\* the ids of the calls in their guarded part, and the step in which such a
\* call returns - after its last store call or after a store call or the
\* executor raised - takes its id out.
C25_GuardReleasedOnEveryPath ==
    /\ [](running_jobs = { workers[w].job.id : w \in { v \in WorkerIds : InFlight(v) } })
    /\ [][ \A w \in WorkerIds :
              (InFlight(w) /\ ~InFlight(w)' /\ ~Crashed) =>
                  /\ workers[w].pc = "release"
                  /\ workers[w].job.id \notin running_jobs'
       ]_vars

\* C25 witness: the update_run of a run raised, its run_job returned, and
\* the same job has been admitted again.
C25_Witness_AdmittedAgainAfterRaise ==
    \E r \in failed_runs : \E w \in WorkerIds :
        /\ InFlight(w)
        /\ workers[w].job.id = runs[r].job_id
        /\ workers[w].run_id # r
        /\ restarts = 0

C30_NothingStartsAfterShutdown ==
    [][ \A w \in WorkerIds :
            (workers[w].pc = "idle" /\ workers'[w].pc = "create_run") => ~shutdown_requested
      ]_vars

\* The lifecycle event that matches a closed Run: job_timeout, job_completed
\* or job_failed.
EventFor(run) ==
    IF run.timed_out THEN "job_timeout"
    ELSE IF run.exit_code = 0 THEN "job_completed" ELSE "job_failed"

\* C23: after each run completes the scheduler hands one lifecycle event that
\* matches the outcome to the notification layer: the step in which run_job
\* records the result of a run is followed, before run_job returns, by one
\* event for that run, and nothing else is emitted for it.
C23_LifecycleEventPerRun ==
    [][ \A w \in WorkerIds :
            (workers[w].pc = "release" /\ workers'[w].pc = "idle"
               /\ workers[w].run_id # 0 /\ runs[workers[w].run_id].ended_at # NULL) =>
                \E k \in 1..Len(events') :
                    /\ events'[k].run_id = workers[w].run_id
                    /\ events'[k].type = EventFor(runs[workers[w].run_id])
      ]_vars

\* C27: an edit or update whose request changes neither the cron expression
\* nor the enabled flag leaves the row's next_run and enabled as they are in
\* the store at the moment it writes; an update that changes neither leaves
\* both, so a newer trigger, enable or disable is not overwritten.
C27_EditKeepsStoredSchedule ==
    [][ /\ (mgmt.pc = "edit_write" /\ mgmt'.pc = "idle" /\ ~mgmt.with_cron) =>
              /\ jobs'[mgmt.job.id].next_run = jobs[mgmt.job.id].next_run
              /\ jobs'[mgmt.job.id].enabled = jobs[mgmt.job.id].enabled
        /\ (gw.pc = "update_write" /\ gw'.pc = "idle"
               /\ ~gw.with_cron /\ ~gw.with_enabled) =>
              /\ jobs'[gw.job.id].next_run = jobs[gw.job.id].next_run
              /\ jobs'[gw.job.id].enabled = jobs[gw.job.id].enabled ]_vars

FailedOrOpen == { r \in 1..Len(runs) :
                    runs[r] # NoRun /\ (runs[r].exit_code # 0 \/ runs[r].timed_out) }

\* the runs a query is about: of its job and not before its since, when given
InScope(q) == { r \in 1..Len(runs) :
                  /\ runs[r] # NoRun
                  /\ q.job_name # 0 => runs[r].job_name = q.job_name
                  /\ q.since # NULL => runs[r].started_at >= q.since }

\* C21: list_runs(failed_only=true) returns exactly the runs that failed,
\* timed out or are open, of the given job and not older than the given start
\* time, most recent started_at first and never more than the limit; the rows
\* left out by the limit are the oldest.  get_last_run(job) returns the job's
\* most recently created run, none only when the job has no run.
C21_ListRunsAndLastRun ==
    /\ (listing.op = "list_runs" /\ listing.failed_only) =>
          LET rows == listing.rows
              ids == { rows[k] : k \in 1..Len(rows) }
              all == InScope(listing) \cap FailedOrOpen
          IN /\ ids \subseteq all
             /\ \A a, b \in 1..Len(rows) :
                   a < b => (rows[a] # rows[b]
                             /\ runs[rows[a]].started_at >= runs[rows[b]].started_at)
             /\ Len(rows) <= listing.limit
             /\ ids # all => Len(rows) = listing.limit
             /\ \A r \in all \ ids : \A k \in ids : runs[r].started_at <= runs[k].started_at
    /\ listing.op = "get_last_run" =>
          LET mine == { r \in 1..Len(runs) :
                          runs[r] # NoRun /\ runs[r].job_name = listing.job_name }
          IN IF mine = {}
             THEN listing.rows = <<>>
             ELSE /\ Len(listing.rows) = 1
                  /\ \A r \in mine : r <= listing.rows[1]

====
